---- MODULE Spec2Model ----
(***************************************************************************)
(* A model of rreplay.py (CrashSimulator): the run of call_replay under    *)
(* the exception handlers of __main__, with the replay engine (rr) and the *)
(* injector subprocesses as the environment.                               *)
(*                                                                         *)
(* Strings are TLA+ strings; the channel is the sequence of writes of rr.   *)
(***************************************************************************)
EXTENDS Integers, Sequences, FiniteSets, TLC

\* ------------------------------------------------------------------ bounds

\* Most test sections in config.ini.
MaxSubjects == 2

\* Most notification lines rr writes to the channel in one run.
MaxMsgs == 3

\* Most lines rr is ahead of the reader of the channel.
MaxUnread == 2

\* ------------------------------------------------------- input alphabets

\* Values of the 'event' key of a section (decimal strings, as int() needs).
Events == {"5", "10"}

\* Values of the 'mutator' key of a section.
Mutators == {"drop_write", "eintr"}

\* Values of the 'pid' key of a section (the recorded pid): the recorded
\* process and a child of it.
RecPids == {"100", "200"}

\* Decision keywords rr may put first on a line; the last one is not part
\* of the protocol.
Keywords == {"INJECT", "DONT_INJECT", "MAYBE_INJECT"}

\* The pid of the n-th process rr forks after the first: every process it
\* reports has a pid of its own.
LivePid(n) == 4242 + n

\* ----------------------------------------------------------------- strings

Digits == "0123456789"

DigitVal(c) == CHOOSE d \in 0..9 : SubSeq(Digits, d + 1, d + 1) = c

\* int(str) of a non-empty decimal string.
RECURSIVE StrToInt(_)
StrToInt(str) ==
  IF Len(str) = 0 THEN 0
  ELSE 10 * StrToInt(SubSeq(str, 1, Len(str) - 1))
       + DigitVal(SubSeq(str, Len(str), Len(str)))

\* str(n) of a natural number.
RECURSIVE IntToStr(_)
IntToStr(n) ==
  IF n < 10 THEN SubSeq(Digits, n + 1, n + 1)
  ELSE IntToStr(n \div 10) \o SubSeq(Digits, (n % 10) + 1, (n % 10) + 1)

\* Index of the first occurrence of the one-character string c in str at or
\* after position i, 0 when there is none.
Find(str, c, i) ==
  LET at == {j \in i..Len(str) : SubSeq(str, j, j) = c}
  IN  IF at = {} THEN 0 ELSE CHOOSE j \in at : \A k \in at : j <= k

\* str.split(' '): the pieces between single blanks, one more than there
\* are blanks.
Split(str) ==
  LET blanks == {j \in 1..Len(str) : SubSeq(str, j, j) = " "}
      n == Cardinality(blanks)
      \* position of the k-th blank; 0 and Len(str) + 1 bracket the string
      pos(k) ==
        IF k = 0 THEN 0
        ELSE IF k = n + 1 THEN Len(str) + 1
        ELSE CHOOSE j \in blanks : Cardinality({i \in blanks : i < j}) = k - 1
  IN  [k \in 1..(n + 1) |-> SubSeq(str, pos(k - 1) + 1, pos(k) - 1)]

IsSpace(c) == c \in {" ", "\n", "\t", "\r"}

\* str.strip(): without leading and trailing whitespace.
RECURSIVE Strip(_)
Strip(str) ==
  IF Len(str) = 0 THEN str
  ELSE IF IsSpace(SubSeq(str, 1, 1)) THEN Strip(SubSeq(str, 2, Len(str)))
  ELSE IF IsSpace(SubSeq(str, Len(str), Len(str)))
       THEN Strip(SubSeq(str, 1, Len(str) - 1))
  ELSE str

\* str[:-1]
DropLast(str) == SubSeq(str, 1, Len(str) - 1)

\* ------------------------------------------------------------------- state

VARIABLES
  pc,                \* position of the control thread in __main__/call_replay
  test_exists,       \* the test directory exists
  brks,              \* the '<rec_pid>_brks.json' files that exist
  proc_file,         \* consts.PROC_FILE (proc.out) exists
  rr_pipe,           \* consts.RR_PIPE (rrdump_proc.pipe) exists
  files,             \* the configuration files: name -> JSON document
  subjects,          \* the list of subject dicts
  subjects_handled,  \* process_messages: set of (event, mutator)
  s,                 \* process_messages: local s, an index of subjects, 0 unbound
  rr,                \* the replay engine: none, started, running, exited
  channel,           \* every write of rr to the pipe, in order
  rpos,              \* writes of channel get_message has read
  opens,             \* times get_message opened the pipe
  nsent,             \* lines rr wrote
  spawned,           \* argument of every injector spawned, in order
  killed,            \* pids os.kill was called on, in order
  widx,              \* wait_on_handles: subjects iterated so far
  rets,              \* wait_on_handles: ret of each subject iterated
  warned,            \* orphan warnings logged by process_messages
  message,           \* process_messages: what get_message returned last
  failed,            \* subjects logger.error reported as failed
  error,             \* the exception that unwound to __main__, "" if none
  cleanups,          \* calls of cleanup
  exit_status,       \* the status of the program once exited, -1 before
  interrupted,       \* a KeyboardInterrupt reached the handler of __main__
  dumped             \* that handler printed the content of proc.out

vars == <<pc, test_exists, brks, proc_file, rr_pipe, files, subjects,
          subjects_handled, s, rr, channel, rpos, opens, nsent, spawned,
          killed, widx, rets, warned, message, failed, error, cleanups,
          exit_status,
          interrupted, dumped>>

\* What the environment owns.
envVars == <<rr, channel, nsent>>

\* What process_messages and wait_on_handles own.
matchVars == <<subjects_handled, s, rpos, opens, spawned, warned, message>>
waitVars == <<killed, widx, rets, failed>>

\* What the KeyboardInterrupt handler of __main__ owns.
intVars == <<interrupted, dumped>>

\* A section of config.ini: the required keys (trace_file, trace_start and
\* trace_end are the same in every section).  The child is forked after
\* event 5, which is an event of the recorded process alone.
Sections ==
  {sec \in [event : Events, pid : RecPids, mutator : Mutators,
            trace_file : {"t.bin"}, trace_start : {"0"}, trace_end : {"10"}] :
     sec.event = "5" => sec.pid = "100"}

\* The name of the brk() kernel mapping file of a recorded pid.
BrksFile(rec_pid) == rec_pid \o "_brks.json"

RECURSIVE SeqsUpTo(_, _)
SeqsUpTo(S, n) ==
  IF n = 0 THEN {<<>>}
  ELSE LET shorter == SeqsUpTo(S, n - 1)
       IN  shorter \cup {Append(q, x) : q \in {r \in shorter : Len(r) = n - 1}, x \in S}

\* An earlier run has left the brk() file of every recorded pid; whether
\* proc.out and the pipe are left over and whether the test exists is open.
Init ==
  /\ pc = "start"
  /\ test_exists \in BOOLEAN
  /\ brks = {BrksFile(rec_pid) : rec_pid \in RecPids}
  /\ proc_file \in BOOLEAN
  /\ rr_pipe \in BOOLEAN
  /\ files = <<>>
  /\ subjects = <<>>
  /\ subjects_handled = {}
  /\ s = 0
  /\ rr = "none"
  /\ channel = <<>>
  /\ rpos = 0
  /\ opens = 0
  /\ nsent = 0
  /\ spawned = <<>>
  /\ killed = <<>>
  /\ widx = 0
  /\ rets = <<>>
  /\ warned = 0
  /\ message = ""
  /\ failed = {}
  /\ error = ""
  /\ cleanups = 0
  /\ exit_status = -1
  /\ interrupted = FALSE
  /\ dumped = FALSE

\* ------------------------------------------------------------- call_replay

\* cleanup without the unlink of the pipe.
CleanupKeepsPipe ==
  /\ proc_file' = IF proc_file THEN FALSE ELSE proc_file
  /\ rr_pipe' = rr_pipe
  /\ cleanups' = cleanups + 1

\* cleanup(): unlink proc.out and the pipe when they exist.
Cleanup ==
  /\ proc_file' = IF proc_file THEN FALSE ELSE proc_file
  /\ rr_pipe' = IF rr_pipe THEN FALSE ELSE rr_pipe
  /\ cleanups' = cleanups + 1

\* The exception is noted and the caller goes on.
RaiseAndGoOn(e) ==
  /\ pc' = pc
  /\ error' = e

\* An exception leaves call_replay for the handlers of __main__.
Raise(e) ==
  /\ pc' = "raised"
  /\ error' = e

\* call_replay up to get_configuration: cleanup, then the test directory
\* check, which ends the program with status 1.
CallReplayStart ==
  /\ pc = "start"
  /\ Cleanup
  /\ IF test_exists
       THEN pc' = "config" /\ exit_status' = exit_status
       ELSE pc' = "exited" /\ exit_status' = 1
  /\ UNCHANGED <<brks, test_exists, files, subjects, error>>
  /\ UNCHANGED <<envVars, matchVars, waitVars>>
  /\ UNCHANGED intVars

\* ------------------------------------------------------- get_configuration

\* The subject dict built from one section.
SubjectOf(sec) ==
  [event |-> sec.event,
   rec_pid |-> sec.pid,
   trace_file |-> sec.trace_file,
   trace_start |-> sec.trace_start,
   trace_end |-> sec.trace_end,
   mutator |-> sec.mutator,
   injected_state_file |-> sec.event \o "_" \o sec.mutator \o "_state.json",
   other_procs |-> <<>>]

\* The key subjects.sort sorts by.
SortKeyFirstDigit(sub) == StrToInt(SubSeq(sub.event, 1, 1))

SortByEventKey(sub) == StrToInt(sub.event)

\* Insert sub into the sorted list after every element with a key not
\* greater than its own (list.sort is stable).
RECURSIVE InsertByKey(_, _)
InsertByKey(sorted, sub) ==
  IF sorted = <<>> THEN <<sub>>
  ELSE IF SortByEventKey(sorted[Len(sorted)]) <= SortByEventKey(sub)
       THEN Append(sorted, sub)
  ELSE Append(InsertByKey(SubSeq(sorted, 1, Len(sorted) - 1), sub),
              sorted[Len(sorted)])

RECURSIVE SortSubjects(_)
SortSubjects(list) ==
  IF list = <<>> THEN <<>>
  ELSE InsertByKey(SortSubjects(SubSeq(list, 1, Len(list) - 1)),
                   list[Len(list)])

\* The subject list get_configuration returns for the sections secs.
ParsedSubjects(secs) ==
  SortSubjects([i \in 1..Len(secs) |-> SubjectOf(secs[i])])

\* The contents config.ini may have: its sections after the rr_dir section.
ConfigSources == SeqsUpTo(Sections, MaxSubjects)

\* os.remove(name) with its OSError passed over: the file is gone if it was
\* there.
Remove(existing, name) == existing \ {name}

\* The loop over the sorted subjects that removes the brk() files.  Its body
\* names the file by s, the dict of the section parsed last, which the loop
\* over the sections has left bound, and not by its own variable i.
RECURSIVE RemoveBrks(_, _, _)
RemoveBrks(existing, list, s_last) ==
  IF list = <<>> THEN existing
  ELSE RemoveBrks(Remove(existing, BrksFile(s_last.rec_pid)), Tail(list),
                  s_last)

\* get_configuration on a readable config.ini with the sections secs.
GetConfiguration ==
  /\ pc = "config"
  /\ \E secs \in ConfigSources :
       IF Len(secs) = 0
         THEN Raise("NoSectionError") /\ UNCHANGED <<subjects, brks>>
         ELSE /\ subjects' = ParsedSubjects(secs)
              /\ brks' = RemoveBrks(brks, ParsedSubjects(secs),
                                    SubjectOf(secs[Len(secs)]))
              /\ pc' = "emit"
              /\ error' = error
  /\ UNCHANGED <<test_exists, proc_file, rr_pipe, files, cleanups,
                 exit_status>>
  /\ UNCHANGED <<envVars, matchVars, waitVars>>
  /\ UNCHANGED intVars

\* ---------------------------------------- create_event_configuration_files

\* The JSON text of a str without characters to escape, and the str of it.
JsonString(str) == "\"" \o str \o "\""

JsonStringValue(text) == SubSeq(text, 2, Len(text) - 1)

\* The JSON text of a list of str: [] or ["a", "b"].
RECURSIVE JsonItems(_)
JsonItems(list) ==
  IF Len(list) = 1 THEN JsonString(list[1])
  ELSE JsonString(Head(list)) \o ", " \o JsonItems(Tail(list))

JsonArray(list) ==
  IF list = <<>> THEN "[]" ELSE "[" \o JsonItems(list) \o "]"

\* The list of a JSON array of strings without blanks: the items are the
\* pieces between the blanks, each without its quotes and its comma.
JsonArrayValue(text) ==
  IF text = "[]" THEN <<>>
  ELSE LET items == Split(SubSeq(text, 2, Len(text) - 1))
       IN  [i \in 1..Len(items) |->
              IF i < Len(items)
                THEN SubSeq(items[i], 2, Len(items[i]) - 2)
                ELSE JsonStringValue(items[i])]

\* json.dump of a subject dict: a JSON object, kept as its members, each
\* with the JSON text of its value.  other_procs is the one list of the
\* dict, every other value is a str.
JsonDump(d) ==
  [n \in DOMAIN d |->
     IF n = "other_procs" THEN JsonArray(d[n]) ELSE JsonString(d[n])]

\* json.load: the dict of the members, each value parsed from its text.
JsonLoad(doc) ==
  [n \in DOMAIN doc |->
     IF SubSeq(doc[n], 1, 1) = "[" THEN JsonArrayValue(doc[n])
     ELSE JsonStringValue(doc[n])]

\* Write doc unless the file exists already.
WriteFileKeep(fs, name, doc) ==
  [n \in DOMAIN fs \cup {name} |-> IF n \in DOMAIN fs THEN fs[n] ELSE doc]

\* open(name, 'w') and write doc: any earlier content is replaced.
WriteFile(fs, name, doc) ==
  [n \in DOMAIN fs \cup {name} |-> IF n = name THEN doc ELSE fs[n]]

RECURSIVE EmitAll(_, _)
EmitAll(fs, list) ==
  IF list = <<>> THEN fs
  ELSE EmitAll(WriteFile(fs, Head(list).injected_state_file,
                         JsonDump(Head(list))),
               Tail(list))

\* Every file is written, or open(name, 'w') fails (the directory is not
\* writable) and nothing is.
CreateEventConfigurationFiles ==
  /\ pc = "emit"
  /\ \E writable \in BOOLEAN :
       IF writable
         THEN /\ files' = EmitAll(files, subjects)
              /\ pc' = "launch"
              /\ error' = error
         ELSE /\ Raise("IOError")
              /\ files' = files
  /\ UNCHANGED <<brks, test_exists, proc_file, rr_pipe, subjects,
                 cleanups, exit_status>>
  /\ UNCHANGED <<envVars, matchVars, waitVars>>
  /\ UNCHANGED intVars

\* -------------------------------------------------------------- execute_rr

\* proc.out is opened for writing and rr is started in the background, or
\* Popen fails (no rr to execute) with proc.out already made.
ExecuteRR ==
  /\ pc = "launch"
  /\ proc_file' = TRUE
  /\ \E installed \in BOOLEAN :
       IF installed
         THEN /\ rr' = "started"
              /\ pc' = "match"
              /\ error' = error
         ELSE /\ Raise("OSError")
              /\ rr' = rr
  /\ UNCHANGED <<brks, test_exists, rr_pipe, files, subjects,
                 cleanups, exit_status, channel, nsent>>
  /\ UNCHANGED <<matchVars, waitVars>>
  /\ UNCHANGED intVars

\* ------------------------------------------------------------- get_message

\* The writes to the pipe not read yet.
Unread == SubSeq(channel, rpos + 1, Len(channel))

\* A write that ends with the line terminator.
EndsLine(bytes) == Len(bytes) > 0 /\ SubSeq(bytes, Len(bytes), Len(bytes)) = "\n"

\* The last unread write that ends a line, 0 when there is none.
LineEndLast ==
  LET ends == {j \in (rpos + 1)..Len(channel) : EndsLine(channel[j])}
  IN  IF ends = {} THEN 0 ELSE CHOOSE j \in ends : \A k \in ends : j >= k

\* The first unread write that ends a line, 0 when there is none.  rr puts
\* no byte after a line terminator in the same write, so reading one byte at
\* a time up to the terminator reads whole writes.
LineEnd ==
  LET ends == {j \in (rpos + 1)..Len(channel) : EndsLine(channel[j])}
  IN  IF ends = {} THEN 0 ELSE CHOOSE j \in ends : \A k \in ends : j <= k

RECURSIVE Concat(_)
Concat(writes) ==
  IF writes = <<>> THEN "" ELSE Head(writes) \o Concat(Tail(writes))

\* get_message can return: the pipe is open or its path exists, and either
\* a whole line is there to read or the writer has closed the pipe with
\* nothing left in it.
CanGetMessage ==
  /\ opens > 0 \/ rr_pipe
  /\ \/ LineEnd > 0
     \/ rr = "exited" /\ Unread = <<>>

\* What get_message returns then: the bytes up to and with the first line
\* terminator, '' at the end of the stream.
GetMessage ==
  IF LineEnd > 0 THEN Concat(SubSeq(channel, rpos + 1, LineEnd)) ELSE ""

\* The writes get_message has read when it returns.
ReadUpTo == IF LineEnd > 0 THEN LineEnd ELSE rpos

\* -------------------------------------------------------- process_messages

Key(sub) == <<sub.event, sub.mutator>>

\* The REC_PID of the lines: the one field of a line process_messages never
\* reads (parts[6]), so one value stands for every recorded pid.
ReportedRecPid == "100"

\* One line of the protocol.
Line(keyword, event, pid, rec_pid) ==
  keyword \o ": EVENT: " \o event \o " PID: " \o pid
          \o " REC_PID: " \o rec_pid \o "\n"

\* What get_message may return: a line rr may write, or ''.
Messages ==
  {Line(keyword, event, IntToStr(LivePid(n)), ReportedRecPid) :
     keyword \in Keywords, event \in Events, n \in 0..(MaxMsgs - 1)}
    \cup {""}

\* message.split(' ') of each of them.
SplitOf == [line \in Messages |-> Split(line)]

\* parts, inject, event and pid of a message.
Parts(line) == IF line \in Messages THEN SplitOf[line] ELSE Split(line)

InjectOf(parts) == DropLast(Strip(parts[1]))

\* The subjects of the event whatever was handled.
SubjectsForEventAll(list, handled, event) ==
  LET RECURSIVE Pick(_)
      Pick(i) ==
        IF i > Len(list) THEN <<>>
        ELSE IF list[i].event = event
             THEN <<i>> \o Pick(i + 1)
        ELSE Pick(i + 1)
  IN  Pick(1)

\* subjects_for_event, as indices of the list: the subjects of the event
\* whose key is not handled, in the order of the list.
SubjectsForEvent(list, handled, event) ==
  LET RECURSIVE Pick(_)
      Pick(i) ==
        IF i > Len(list) THEN <<>>
        ELSE IF list[i].event = event /\ Key(list[i]) \notin handled
             THEN <<i>> \o Pick(i + 1)
        ELSE Pick(i + 1)
  IN  Pick(1)

\* The loop goes on until the first subject is handled.
MoreToHandleNone == subjects_handled = {}

\* The loop condition of process_messages.
MoreToHandle == Cardinality(subjects_handled) < Len(subjects)

\* One iteration of the loop of process_messages, from get_message to the
\* end of the INJECT or DONT_INJECT branch.  The wait for the reported pid
\* to be alive (util.process_is_alive) changes nothing and ends: rr reports
\* a process once it has forked it.
ProcessMessage ==
  /\ pc = "match"
  /\ MoreToHandle
  /\ CanGetMessage
  /\ LET parts == Parts(GetMessage)
     IN  /\ message' = GetMessage
         /\ rpos' = ReadUpTo
         /\ opens' = IF opens = 0 THEN 1 ELSE opens
         /\ IF Len(parts) < 5
              THEN \* parts[2] or parts[4] does not exist
                   /\ Raise("IndexError")
                   /\ UNCHANGED <<subjects, subjects_handled, s, files,
                                  spawned, warned>>
              ELSE
              LET inject == InjectOf(parts)
                  event == parts[3]
                  pid == parts[5]
                  for_event == SubjectsForEvent(subjects, subjects_handled,
                                                event)
              IN
              IF inject = "INJECT" THEN
                IF for_event = <<>> THEN
                  \* pop from the empty list: warn and continue
                  /\ warned' = warned + 1
                  /\ UNCHANGED <<pc, error, subjects, subjects_handled, s,
                                 files, spawned>>
                ELSE
                  LET k == for_event[Len(for_event)]
                      eventwise_statefile == subjects[k].injected_state_file
                      tmp == [n \in DOMAIN JsonLoad(files[eventwise_statefile])
                                    \cup {"pid"} |->
                                IF n = "pid" THEN pid
                                ELSE JsonLoad(files[eventwise_statefile])[n]]
                      pid_unique_statefile ==
                        tmp["pid"] \o "_" \o eventwise_statefile
                  IN  /\ s' = k
                      /\ subjects_handled' =
                           subjects_handled \cup {Key(subjects[k])}
                      /\ files' = WriteFile(files, pid_unique_statefile,
                                            JsonDump(tmp))
                      /\ spawned' = Append(spawned, pid_unique_statefile)
                      /\ subjects' =
                           [subjects EXCEPT ![k] =
                              [n \in DOMAIN @ \cup {"handle"} |->
                                 IF n = "handle" THEN Len(spawned) + 1
                                 ELSE @[n]]]
                      /\ UNCHANGED <<pc, error, warned>>
              ELSE IF inject = "DONT_INJECT" THEN
                IF s = 0 THEN
                  \* s is not bound before the first INJECT is matched
                  /\ Raise("UnboundLocalError")
                  /\ UNCHANGED <<subjects, subjects_handled, s, files,
                                 spawned, warned>>
                ELSE
                  /\ subjects' =
                       [subjects EXCEPT ![s].other_procs = Append(@, pid)]
                  /\ UNCHANGED <<pc, error, subjects_handled, s, files,
                                 spawned, warned>>
              ELSE
                \* neither keyword: nothing is done with the message
                UNCHANGED <<pc, error, subjects, subjects_handled, s, files,
                            spawned, warned>>
  /\ UNCHANGED <<brks, test_exists, proc_file, rr_pipe, cleanups, exit_status>>
  /\ UNCHANGED <<envVars, waitVars>>
  /\ UNCHANGED intVars

\* The loop of process_messages ends and wait_on_handles is called.
ProcessMessagesReturn ==
  /\ pc = "match"
  /\ ~MoreToHandle
  /\ pc' = "wait"
  /\ UNCHANGED <<brks, test_exists, proc_file, rr_pipe, files, subjects,
                 error, cleanups, exit_status>>
  /\ UNCHANGED <<envVars, matchVars, waitVars>>
  /\ UNCHANGED intVars

\* --------------------------------------------------------- wait_on_handles

\* The exit statuses an injector may end with.
ExitStatuses == {0, 1}

\* The loop over s['other_procs'] of one subject: the pids it kills and
\* whether it raises.  Every entry i is a str (a piece of the message), and
\* the argument of logger.debug, s['other_procs'][i], indexes the list with
\* it: a TypeError, raised before os.kill is reached.
KillOthers(other_procs) ==
  IF other_procs = <<>>
    THEN [raised |-> FALSE, pids |-> <<>>]
    ELSE [raised |-> TRUE, pids |-> <<>>]

\* One iteration of the loop of wait_on_handles: wait on the handle (or
\* ret = -1 without one), kill the other processes, report a failure.
WaitOnHandle ==
  /\ pc = "wait"
  /\ widx < Len(subjects)
  /\ LET sub == subjects[widx + 1]
         kill == KillOthers(sub.other_procs)
     IN  \E status \in ExitStatuses :
           LET ret == IF "handle" \in DOMAIN sub THEN status ELSE -1
           IN  /\ rets' = Append(rets, ret)
               /\ killed' = killed \o kill.pids
               /\ IF kill.raised
                    THEN /\ Raise("TypeError")
                         /\ UNCHANGED <<widx, failed>>
                    ELSE /\ widx' = widx + 1
                         /\ failed' = IF ret # 0 THEN failed \cup {widx + 1}
                                      ELSE failed
                         /\ UNCHANGED <<pc, error>>
  /\ UNCHANGED <<brks, test_exists, proc_file, rr_pipe, files, subjects,
                 cleanups, exit_status>>
  /\ UNCHANGED <<envVars, matchVars>>
  /\ UNCHANGED intVars

\* wait_on_handles returns; call_replay runs cleanup and returns, main
\* returns, and __main__ calls sys.exit(0).
FinishRun ==
  /\ pc = "wait"
  /\ widx = Len(subjects)
  /\ Cleanup
  /\ pc' = "exited"
  /\ exit_status' = 0
  /\ UNCHANGED <<brks, test_exists, files, subjects, error>>
  /\ UNCHANGED <<envVars, matchVars, waitVars>>
  /\ UNCHANGED intVars

\* The exception leaves the program with no cleanup.
HandleExceptionNoCleanup ==
  /\ pc = "raised"
  /\ pc' = "exited"
  /\ exit_status' = 1
  /\ UNCHANGED <<brks, test_exists, proc_file, rr_pipe, cleanups, files, subjects,
                 error>>
  /\ UNCHANGED <<envVars, matchVars, waitVars>>
  /\ UNCHANGED intVars

\* except Exception as e: cleanup(); raise e.  The interpreter ends with
\* status 1 on an uncaught exception.
HandleException ==
  /\ pc = "raised"
  /\ Cleanup
  /\ pc' = "exited"
  /\ exit_status' = 1
  /\ UNCHANGED <<brks, test_exists, files, subjects, error>>
  /\ UNCHANGED <<envVars, matchVars, waitVars>>
  /\ UNCHANGED intVars

\* except KeyboardInterrupt: a SIGINT reaches the program while main() runs.
\* The handler opens proc.out for reading, which raises IOError when the file
\* does not exist: the IOError leaves the program (status 1) and the rest of
\* the handler is not run.  Otherwise it prints the content, runs cleanup
\* and calls sys.exit(0).  It does nothing with rr or the injectors.
KeyboardInterrupt ==
  /\ pc \in {"start", "config", "emit", "launch", "match", "wait"}
  /\ interrupted' = TRUE
  /\ pc' = "exited"
  /\ IF proc_file
       THEN /\ dumped' = TRUE
            /\ Cleanup
            /\ exit_status' = 0
            /\ error' = error
       ELSE /\ dumped' = dumped
            /\ error' = "IOError"
            /\ exit_status' = 1
            /\ UNCHANGED <<proc_file, rr_pipe, cleanups>>
  /\ UNCHANGED <<brks, test_exists, files, subjects>>
  /\ UNCHANGED <<envVars, matchVars, waitVars>>

\* --------------------------------------------------------- the environment

\* rr creates the pipe once it has started.
RRCreatePipe ==
  /\ pc = "match"
  /\ rr = "started"
  /\ rr' = "running"
  /\ rr_pipe' = TRUE
  /\ UNCHANGED <<pc, brks, test_exists, proc_file, files, subjects, error,
                 cleanups, exit_status, channel, nsent>>
  /\ UNCHANGED <<matchVars, waitVars>>
  /\ UNCHANGED intVars

\* rr forks a process of a process set and writes its notification, one
\* write per line, while it is not too far ahead of the reader.
RRNotify ==
  /\ pc = "match"
  /\ rr = "running"
  /\ Len(Unread) < MaxUnread
  /\ nsent < MaxMsgs
  /\ \E keyword \in Keywords, event \in Events :
       channel' = Append(channel, Line(keyword, event,
                                       IntToStr(LivePid(nsent)),
                                       ReportedRecPid))
  /\ nsent' = nsent + 1
  /\ UNCHANGED <<pc, brks, test_exists, proc_file, rr_pipe, files, subjects,
                 error, cleanups, exit_status, rr>>
  /\ UNCHANGED <<matchVars, waitVars>>
  /\ UNCHANGED intVars

\* rr ends and the write end of the pipe is closed.  get_message finds the
\* end of the stream only after the lines written before it, so rr is let
\* to end once they are read.
RRExit ==
  /\ pc = "match"
  /\ rr = "running"
  /\ Unread = <<>>
  /\ rr' = "exited"
  /\ UNCHANGED <<pc, brks, test_exists, proc_file, rr_pipe, files, subjects,
                 error, cleanups, exit_status, channel, nsent>>
  /\ UNCHANGED <<matchVars, waitVars>>
  /\ UNCHANGED intVars

\* rr is killed while it writes a notification: the bytes of the line but
\* the terminator are in the pipe and the write end is closed.  get_message
\* takes these bytes into buf, and from then on read gives '' while buf is
\* neither '' nor ends with the terminator (CanGetMessage).
RRDies ==
  /\ pc = "match"
  /\ rr = "running"
  /\ Unread = <<>>
  /\ nsent < MaxMsgs
  /\ channel' = Append(channel,
                       DropLast(Line("INJECT", "10", IntToStr(LivePid(nsent)),
                                     ReportedRecPid)))
  /\ rr' = "exited"
  /\ UNCHANGED <<pc, brks, test_exists, proc_file, rr_pipe, files, subjects,
                 error, cleanups, exit_status, nsent>>
  /\ UNCHANGED <<matchVars, waitVars>>
  /\ UNCHANGED intVars

\* ------------------------------------------------------- the specification

Next ==
  \/ CallReplayStart
  \/ GetConfiguration
  \/ CreateEventConfigurationFiles
  \/ ExecuteRR
  \/ ProcessMessage
  \/ ProcessMessagesReturn
  \/ WaitOnHandle
  \/ FinishRun
  \/ HandleException
  \/ KeyboardInterrupt
  \/ RRCreatePipe
  \/ RRNotify
  \/ RRExit
  \/ RRDies

Spec == Init /\ [][Next]_vars

\* ------------------------------------------------------ notions of the claims

\* inject, event and pid of the i-th line of the channel, as process_messages
\* takes them from it.
Note(i) ==
  LET parts == Parts(channel[i])
  IN  [inject |-> InjectOf(parts), event |-> parts[3], pid |-> parts[5]]

\* The entries of a list.
Range(list) == {list[i] : i \in 1..Len(list)}

\* The subjects (indices) that are Pending: their key is not handled.
Pending == {k \in 1..Len(subjects) : Key(subjects[k]) \notin subjects_handled}

PendingFor(event) == {k \in Pending : subjects[k].event = event}

\* The step is an iteration of process_messages that reads the next line.
ReadsLine == pc = "match" /\ rpos' = rpos + 1

\* process_messages was called and is over: it returned or raised, and no
\* interrupt ended it.
MatchingOver ==
  /\ rr # "none"
  /\ pc \in {"wait", "raised", "exited"}
  /\ ~interrupted

\* No two subjects of the list have the same (event, mutator).
UniqueKeys ==
  \A j, k \in 1..Len(subjects) : Key(subjects[j]) = Key(subjects[k]) => j = k

\* C1: every pid in a subject's other_procs came from a DONT_INJECT line
\* for that subject's event (stated for subject lists with unique keys).
C1_OtherProcsOfOwnEvent ==
  UniqueKeys =>
  \A k \in 1..Len(subjects) :
    \A p \in Range(subjects[k].other_procs) :
      \E i \in 1..rpos :
        /\ Note(i).inject = "DONT_INJECT"
        /\ Note(i).pid = p
        /\ Note(i).event = subjects[k].event

\* C2: once process_messages has returned, every DONT_INJECT line rr wrote
\* has been read and its pid is in some subject's other_procs.
C2_EveryDontInjectRecorded ==
  pc = "wait" =>
    \A i \in 1..Len(channel) :
      Note(i).inject = "DONT_INJECT" =>
        /\ i <= rpos
        /\ \E k \in 1..Len(subjects) :
             Note(i).pid \in Range(subjects[k].other_procs)

\* C3: when wait_on_handles has collected the exit status of a subject's
\* injector, every pid in that subject's other_procs has been sent a kill.
C3_OtherProcsKilledAfterWait ==
  \A k \in 1..Len(rets) :
    \A p \in Range(subjects[k].other_procs) : p \in Range(killed)

\* C4: wait_on_handles never raises and waits on every subject: once it is
\* left, and not by an interrupt, a status was collected for each subject of
\* the list.
C4_WaitsOnEverySubject ==
  (Len(rets) > 0 /\ pc # "wait" /\ ~interrupted) =>
    (error = "" /\ Len(rets) = Len(subjects))

\* C5: the program, when not interrupted, exits with status 0 only if every
\* injector exited with status 0 and every subject was matched.
C5_SuccessOnlyIfAllZero ==
  (pc = "exited" /\ exit_status = 0 /\ ~interrupted) =>
    /\ Len(rets) = Len(subjects)
    /\ \A k \in 1..Len(rets) : rets[k] = 0

\* C6: a line with an unknown keyword is the last one read, and reading it
\* raises.
C6_UnknownKeywordStops ==
  \A i \in 1..rpos :
    Note(i).inject \notin {"INJECT", "DONT_INJECT"} =>
      (i = rpos /\ pc \in {"raised", "exited"} /\ error # "")

\* C7: an INJECT line for an event without a Pending subject changes no
\* subject, no file, spawns and kills nothing, and the loop goes on.
C7_OrphanInjectChangesNothing ==
  [][(/\ ReadsLine
      /\ Note(rpos + 1).inject = "INJECT"
      /\ PendingFor(Note(rpos + 1).event) = {})
     => (/\ UNCHANGED <<subjects, subjects_handled, files, spawned, killed>>
         /\ pc' = "match"
         /\ error' = error)]_vars

\* An orphan INJECT line was read and the loop is still running.
C7_Witness == warned > 0 /\ pc = "match"

\* C8: an INJECT line with pid p for an event with a Pending subject takes
\* exactly one subject of that event out of Pending, writes the file
\* '<p>_<event>_<mutator>_state.json' holding the per-event record plus pid,
\* spawns one injector on that path and records its handle on that subject.
C8_InjectMatchesExactlyOne ==
  [][(/\ ReadsLine
      /\ Note(rpos + 1).inject = "INJECT"
      /\ PendingFor(Note(rpos + 1).event) # {})
     => LET note == Note(rpos + 1)
            left == {k \in PendingFor(note.event) :
                       Key(subjects[k]) \in subjects_handled'}
        IN  /\ Cardinality(left) = 1
            /\ \E k \in left :
                 LET name == note.pid \o "_" \o subjects[k].event \o "_"
                               \o subjects[k].mutator \o "_state.json"
                     record ==
                       JsonLoad(files[subjects[k].injected_state_file])
                     written ==
                       IF name \in DOMAIN files' THEN JsonLoad(files'[name])
                       ELSE <<>>
                 IN  /\ name \in DOMAIN files'
                     /\ DOMAIN written = DOMAIN record \cup {"pid"}
                     /\ written["pid"] = note.pid
                     /\ \A n \in DOMAIN record : written[n] = record[n]
                     /\ spawned' = Append(spawned, name)
                     /\ "handle" \in DOMAIN subjects'[k]
                     /\ subjects'[k]["handle"] = Len(spawned')
                     /\ \A j \in 1..Len(subjects) :
                          j # k => subjects'[j] = subjects[j]]_vars

\* C9: when what the channel has delivered is the beginning of such a
\* sequence (only INJECT and DONT_INJECT lines, no more INJECT lines for an
\* event than it has subjects, rr still running), process_messages does not
\* end before every subject is handled and holds a handle (stated for
\* subject lists with unique keys).
C9_MatcherEndsWithAllHandled ==
  (/\ UniqueKeys
   /\ MatchingOver
   /\ rr = "running"
   /\ \A i \in 1..Len(channel) : Note(i).inject \in {"INJECT", "DONT_INJECT"}
   /\ \A e \in Events :
        Cardinality({i \in 1..Len(channel) :
                       Note(i).inject = "INJECT" /\ Note(i).event = e})
          <= Cardinality({k \in 1..Len(subjects) : subjects[k].event = e}))
  => \A k \in 1..Len(subjects) :
       /\ Key(subjects[k]) \in subjects_handled
       /\ "handle" \in DOMAIN subjects[k]

\* C10 as stated: the subject list is strictly ascending by int(event)
\* (stated for subject lists with unique keys).
C10_StrictlyAscending ==
  UniqueKeys =>
  \A i \in 1..(Len(subjects) - 1) :
    StrToInt(subjects[i].event) < StrToInt(subjects[i + 1].event)

\* C10 as amended: the subject list is ascending by int(event), subjects of
\* the same event being neighbours.
C10_SortedByEvent ==
  \A i \in 1..(Len(subjects) - 1) :
    StrToInt(subjects[i].event) <= StrToInt(subjects[i + 1].event)

\* get_configuration returned subjects of events 5 and 10.
C10_Witness ==
  /\ pc = "emit"
  /\ Len(subjects) >= 2
  /\ subjects[1].event = "5"
  /\ subjects[Len(subjects)].event = "10"

\* C11: no two subjects of the list get_configuration returned have the same
\* (event, mutator), and so no two have the same injected_state_file.
C11_KeysAndFileNamesUnique ==
  \A j, k \in 1..Len(subjects) :
    j # k => /\ Key(subjects[j]) # Key(subjects[k])
             /\ subjects[j].injected_state_file
                  # subjects[k].injected_state_file

\* The subjects (indices) that hold an injector handle.
Matched == {k \in 1..Len(subjects) : "handle" \in DOMAIN subjects[k]}

\* List a is the beginning of list b.
IsPrefix(a, b) == Len(a) <= Len(b) /\ SubSeq(b, 1, Len(a)) = a

\* C12: while process_messages runs, every subject with a handle is the
\* subject of one injector of its own and its key is handled; a step never
\* takes a key out of subjects_handled, never replaces a handle, gives a
\* handle only to a subject whose key was not handled and spawns one injector
\* for it, and only appends to other_procs.
C12_MatchedOnceOtherProcsGrow ==
  /\ [](pc = "match" =>
          /\ Cardinality(Matched) = Len(spawned)
          /\ \A j, k \in Matched :
               subjects[j]["handle"] = subjects[k]["handle"] => j = k
          /\ \A k \in Matched : Key(subjects[k]) \in subjects_handled)
  /\ [][pc = "match" =>
          /\ Len(subjects') = Len(subjects)
          /\ subjects_handled \subseteq subjects_handled'
          /\ Len(spawned') - Len(spawned)
               = Cardinality({k \in 1..Len(subjects) :
                                /\ k \notin Matched
                                /\ "handle" \in DOMAIN subjects'[k]})
          /\ \A k \in 1..Len(subjects) :
               /\ IsPrefix(subjects[k].other_procs, subjects'[k].other_procs)
               /\ k \in Matched =>
                    /\ "handle" \in DOMAIN subjects'[k]
                    /\ subjects'[k]["handle"] = subjects[k]["handle"]
               /\ (k \notin Matched /\ "handle" \in DOMAIN subjects'[k]) =>
                    /\ Key(subjects[k]) \notin subjects_handled
                    /\ Key(subjects[k]) \in subjects_handled'
                    /\ subjects'[k]["handle"] = Len(spawned')]_vars

\* A subject holds a handle and a sibling pid while another is not matched.
C12_Witness ==
  /\ pc = "match"
  /\ \E k \in Matched : subjects[k].other_procs # <<>>
  /\ \E k \in 1..Len(subjects) : k \notin Matched

\* The step calls cleanup.
CallsCleanup == cleanups' = cleanups + 1

\* C13: a call of cleanup, whether proc.out and the pipe exist or not,
\* leaves neither and raises nothing; called again where an earlier call
\* left neither, it changes nothing.
C13_CleanupIdempotent ==
  [][CallsCleanup =>
       /\ ~proc_file' /\ ~rr_pipe'
       /\ error' = error
       /\ (cleanups > 0 /\ ~proc_file /\ ~rr_pipe) =>
            UNCHANGED <<proc_file, rr_pipe, files, subjects>>]_vars

\* cleanup ran twice with nothing made in between: get_configuration raised
\* right after the cleanup of call_replay.
C13_Witness ==
  /\ pc = "exited"
  /\ cleanups = 2
  /\ error = "NoSectionError"

\* C14: when a step of the run raised, the program exits only through one
\* more cleanup (the one of call_replay before it, none after it), with
\* status 1 and with neither proc.out nor the pipe left.
C14_FailureCleansUpOnce ==
  (pc = "exited" /\ error # "" /\ ~interrupted) =>
    /\ cleanups = 2
    /\ ~proc_file
    /\ ~rr_pipe
    /\ exit_status = 1

\* Popen raised in execute_rr with proc.out made, and the program has exited.
C14_Witness ==
  /\ pc = "exited"
  /\ error = "OSError"
  /\ cleanups = 2

\* C15: after an interrupt the program has exited with proc.out printed,
\* cleanup run and neither proc.out nor the pipe left.
C15_InterruptDumpsAndCleans ==
  (pc = "exited" /\ interrupted) =>
    /\ dumped
    /\ error = ""
    /\ ~proc_file
    /\ ~rr_pipe

\* The injectors (handles) wait_on_handles has waited on.
Reaped == {subjects[k]["handle"] : k \in Matched \cap 1..Len(rets)}

\* C16: after an interrupt the program has exited with every injector it
\* spawned waited on (the program has no other way to end one).
C16_NoInjectorLeftRunning ==
  (pc = "exited" /\ interrupted) =>
    \A h \in 1..Len(spawned) : h \in Reaped

\* The keys of a subject that get_configuration sets from the section and
\* nothing changes afterwards.
StaticFields ==
  {"event", "rec_pid", "trace_file", "trace_start", "trace_end", "mutator",
   "injected_state_file"}

\* C17: once rr is launched the injected_state_file of every subject is
\* written, and when an INJECT line gives a subject its handle, the document
\* in that file, loaded, has the static fields of that very subject.
C17_EventFilesWrittenBeforeLaunch ==
  /\ [](rr # "none" =>
          \A k \in 1..Len(subjects) :
            subjects[k].injected_state_file \in DOMAIN files)
  /\ [][ReadsLine =>
          \A k \in 1..Len(subjects) :
            (k \notin Matched /\ "handle" \in DOMAIN subjects'[k]) =>
              /\ subjects[k].injected_state_file \in DOMAIN files
              /\ \A n \in StaticFields :
                   JsonLoad(files[subjects[k].injected_state_file])[n]
                     = subjects[k][n]]_vars

\* A subject is matched while another subject has the same file name and
\* another recorded pid.
C17_Witness ==
  /\ pc = "match"
  /\ \E k \in Matched :
       \E j \in 1..Len(subjects) :
         /\ subjects[j].injected_state_file = subjects[k].injected_state_file
         /\ subjects[j].rec_pid # subjects[k].rec_pid

C19_DontInjectWhilePending ==
  [][(/\ ReadsLine
      /\ Note(rpos + 1).inject = "DONT_INJECT"
      /\ PendingFor(Note(rpos + 1).event) # {})
     => /\ error' = error
        /\ pc' = "match"
        /\ subjects_handled' = subjects_handled
        /\ \E k \in PendingFor(Note(rpos + 1).event) :
             subjects'[k].other_procs
               = Append(subjects[k].other_procs, Note(rpos + 1).pid)]_vars

\* C20: when wait_on_handles runs or has run, the loop of process_messages
\* has ended by its condition and not by an exception, every subject is
\* handled and holds a handle, and no ret is -1.
C20_WaitFindsEveryHandle ==
  (pc = "wait" \/ Len(rets) > 0) =>
    /\ ~MoreToHandle
    /\ error \notin {"IndexError", "UnboundLocalError"}
    /\ \A k \in 1..Len(subjects) :
         /\ Key(subjects[k]) \in subjects_handled
         /\ k \in Matched
    /\ \A i \in 1..Len(rets) : rets[i] # -1

\* wait_on_handles has waited on each of several subjects.
C20_Witness ==
  /\ Len(subjects) >= 2
  /\ Len(rets) = Len(subjects)

\* get_message is about to return '': the pipe can be opened, rr has closed
\* it and every byte written was read.
AtEndOfStream ==
  /\ pc = "match"
  /\ opens > 0 \/ rr_pipe
  /\ rr = "exited"
  /\ Unread = <<>>

\* C21: when the loop of process_messages gets '' with a subject not handled
\* yet, the step raises (IndexError) and changes no subject, no file and no
\* injector; the run then ends with one more cleanup, neither proc.out nor
\* the pipe left, and status 1.
C21_ClosedChannelAborts ==
  /\ [][(AtEndOfStream /\ MoreToHandle /\ ~interrupted') =>
          /\ pc' = "raised"
          /\ error' = "IndexError"
          /\ message' = ""
          /\ UNCHANGED <<subjects, subjects_handled, s, files, spawned,
                         killed>>]_vars
  /\ []((pc = "exited" /\ error = "IndexError") =>
          /\ cleanups = 2
          /\ ~proc_file
          /\ ~rr_pipe
          /\ exit_status = 1)

\* The run ended on '' with one subject matched and another not.
C21_Witness ==
  /\ pc = "exited"
  /\ error = "IndexError"
  /\ message = ""
  /\ Matched # {}
  /\ Pending # {}

\* process_messages is in get_message, the pipe can be opened and rr has
\* closed it.
InGetMessageAfterClose ==
  /\ pc = "match"
  /\ MoreToHandle
  /\ opens > 0 \/ rr_pipe
  /\ rr = "exited"

\* C22: a call of get_message on a pipe whose writer has closed can return,
\* whether bytes of a line without terminator are left in the pipe or not:
\* it is never left with nothing that would end its loop.
C22_GetMessageReturnsAfterClose ==
  InGetMessageAfterClose => CanGetMessage

\* C23: once get_configuration has returned the subjects, the brk() file
\* of the recorded pid of every subject is gone (every file is removable;
\* stated for subject lists with unique keys).
C23_StaleBrksRemoved ==
  (pc \notin {"start", "config"} /\ subjects # <<>> /\ UniqueKeys) =>
    \A k \in 1..Len(subjects) : BrksFile(subjects[k].rec_pid) \notin brks

====
